---- MODULE Spec2Model ----
(***************************************************************************)
(* Point-of-sale back end: stock ledger, sale settlement, customer and     *)
(* supplier account ledgers, cash register reconciliation.                 *)
(*                                                                         *)
(* The persisted state is the relational store (one variable per table).   *)
(* Every service function or request handler is one action; a handler      *)
(* wrapped in transaction.atomic that raises leaves the store unchanged.   *)
(* Money is whole guaranies unless said otherwise; supplier amounts are    *)
(* held in hundredths because SupplierAccount.amount has two decimals.     *)
(***************************************************************************)
EXTENDS Integers, Sequences, FiniteSets, TLC

VARIABLES
    products,          \* stock.Product rows: id -> row
    movements,         \* stock.StockMovement rows, in insertion order
    sales,             \* sales.Sale rows (each with its SaleItem rows), in insertion order
    customers,         \* customers.Customer rows: id -> row
    accounts,          \* customers.CustomerAccount rows, in insertion order
    registers,         \* sales.CashRegister rows, in insertion order
    supplierAccounts,  \* suppliers.SupplierAccount rows, in insertion order
    clock,             \* timezone.now(), as a logical timestamp
    last,              \* the last call: operation, arguments, outcome
    calc,              \* input and output of a stand-alone SaleItem.calculate_totals
    requests           \* requests being served at the same time: position and locals

vars == <<products, movements, sales, customers, accounts, registers,
          supplierAccounts, clock, last, calc, requests>>

\* The tables each group of operations leaves alone.
stockVars    == <<products, movements>>
saleVars     == <<sales>>
customerVars == <<customers, accounts>>
cashVars     == <<registers>>
supplierVars == <<supplierAccounts>>

(***************************************************************************)
(* Bounds and input domains                                                *)
(***************************************************************************)
MaxOps == 2          \* calls that write to the store, per behaviour
MaxTotal == 1100     \* largest unit price given to calculate_totals alone
MaxCashOps == 3      \* calls that write to the store, in the cash register runs
MaxSupplierOps == 3  \* calls that write to the store, in the supplier ledger runs
MaxInstallments == 3 \* largest number of installments of a purchase

None == "None"
NoSuchProduct == "p9"            \* an id with no Product row in any tenant
NoPrice == -1                    \* item_data without a 'unit_price' key

Tenants == {"t1", "t2"}
ProductIds == {"p1", "p2"}        \* the products of tenant t1
AllProductIds == ProductIds \cup {"p3"}   \* p3 belongs to tenant t2
CustomerIds == {"c1"}
StockDeltas == {-1, 2}
PurchaseQuantities == {2}
PaymentAmounts == {0, 7}

TaxTypes == {"EXENTA", "5", "10"}

(***************************************************************************)
(* Decimal helpers                                                         *)
(***************************************************************************)
Abs(x) == IF x < 0 THEN -x ELSE x

\* Decimal.quantize(Decimal('1'), ROUND_HALF_UP) of the exact quotient num/den,
\* den > 0: nearest integer, ties away from zero.
RoundHalfUp(num, den) ==
    IF num >= 0 THEN (2 * num + den) \div (2 * den)
    ELSE -((2 * (-num) + den) \div (2 * den))

Max(a, b) == IF a >= b THEN a ELSE b

\* the exact quotient num/den (num >= 0, den > 0) quantized to a whole unit of
\* num's scale with ties to even: the default rounding of Decimal.quantize and
\* of a DecimalField storing a value with more decimals than the column has
RoundHalfEven(num, den) ==
    LET q == num \div den
        r == num % den
    IN IF 2 * r < den THEN q
       ELSE IF 2 * r > den THEN q + 1
       ELSE IF q % 2 = 0 THEN q ELSE q + 1

RECURSIVE SumAmount(_)
\* aggregate(Sum('amount')) over ledger rows
SumAmount(rows) ==
    IF rows = <<>> THEN 0 ELSE Head(rows).amount + SumAmount(Tail(rows))

RECURSIVE SumQuantity(_)
\* Sum of the quantity column over StockMovement rows
SumQuantity(rows) ==
    IF rows = <<>> THEN 0 ELSE Head(rows).quantity + SumQuantity(Tail(rows))

(***************************************************************************)
(* Tax engine and sale line engine: SaleItem.calculate_totals              *)
(***************************************************************************)
\* tax_rate in percent for a tax_type (sales/models.py 238-242)
TaxRatePct(tax_type) ==
    IF tax_type = "10" THEN 10 ELSE IF tax_type = "5" THEN 5 ELSE 0

\* step 2: discount_amount = round_half_up(gross * discount_percent / 100)
DiscountAmount(gross_total, discount_percent) ==
    RoundHalfUp(gross_total * discount_percent, 100)

\* step 4 with the tax rounded away from the base (the divisor is dropped)
TaxAmountOnTop(subtotal, tax_type) ==
    RoundHalfUp(subtotal * TaxRatePct(tax_type), 100)

\* step 4: tax_amount = round_half_up(subtotal - subtotal / (1 + rate)).
\* subtotal - subtotal/(1+rate) is subtotal*pct/(100+pct) exactly; it is never
\* within 1/2(100+pct) of a tie, so the 28-digit Decimal quotient rounds the same.
TaxAmount(subtotal, tax_type) ==
    IF TaxRatePct(tax_type) > 0
    THEN RoundHalfUp(subtotal * TaxRatePct(tax_type), 100 + TaxRatePct(tax_type))
    ELSE 0

CalculateTotals(quantity, unit_price, discount_percent, tax_type) ==
    LET gross_total == unit_price * quantity
        discount_amount == DiscountAmount(gross_total, discount_percent)
        subtotal == gross_total - discount_amount
    IN [discount_amount |-> discount_amount,
        subtotal        |-> subtotal,
        tax_amount      |-> TaxAmount(subtotal, tax_type)]

(***************************************************************************)
(* Initial store                                                           *)
(***************************************************************************)
InitProducts ==
    [p \in AllProductIds |->
        [tenant        |-> IF p \in ProductIds THEN "t1" ELSE "t2",
         sale_price    |-> IF p = "p1" THEN 21 ELSE 11,
         tax_type      |-> IF p = "p1" THEN "5" ELSE "10",
         current_stock |-> 0]]

InitCustomers ==
    [c \in CustomerIds |-> [tenant |-> "t1", current_balance |-> 0]]

NoCall == [op |-> "none", result |-> "none"]
NoCalc == [done |-> FALSE, quantity |-> 0, unit_price |-> 0, discount_percent |-> 0,
           tax_type |-> "EXENTA", discount_amount |-> 0, subtotal |-> 0,
           tax_amount |-> 0]

RequestIds == {"r1", "r2"}

\* no request is under way
NoRequests == [r \in RequestIds |-> [pc |-> "idle"]]

InitStore ==
    /\ requests = NoRequests
    /\ products = InitProducts
    /\ movements = <<>>
    /\ sales = <<>>
    /\ customers = InitCustomers
    /\ accounts = <<>>
    /\ registers = <<>>
    /\ supplierAccounts = <<>>
    /\ clock = 0
    /\ last = NoCall

Init == InitStore /\ calc = NoCalc

(***************************************************************************)
(* SaleService.create_sale                                                 *)
(***************************************************************************)
SalesOf(tenant) == SelectSeq(sales, LAMBDA s : s.tenant = tenant)

\* lines 39-48: the number after the last '-' of the tenant's newest sale, plus
\* one; INV-000001 when there is no sale yet or that text is not a number (an
\* invoice number is held as its prefix and the number after the last '-', a
\* text that int() refuses as a number outside Nat)
NextInvoiceNumber(tenant) ==
    LET mine == SalesOf(tenant)
    IN IF mine = <<>> THEN [prefix |-> "INV", number |-> 1]
       ELSE IF mine[Len(mine)].invoice_number.number \notin Nat
       THEN [prefix |-> "INV", number |-> 1]
       ELSE [prefix |-> "INV", number |-> mine[Len(mine)].invoice_number.number + 1]

\* Product.objects.get(id=..., tenant=tenant) finds a row
ProductExists(prods, tenant, product_id) ==
    product_id \in DOMAIN prods /\ prods[product_id].tenant = tenant

\* line 113 with the quantity negated, as the movement of an outgoing sale
SaleMovementQuantityNegated(quantity) == -quantity

\* line 113: the quantity stored on the 'sale' movement of a line
SaleMovementQuantity(quantity) == quantity

\* lines 76-119, one pass of the loop over items_data.  acc carries the
\* transaction's view of the store and the running totals.
SaleLine(acc, item, tenant, invoice_number) ==
    IF ~acc.ok THEN acc
    ELSE IF ~ProductExists(acc.products, tenant, item.product_id)
    THEN [acc EXCEPT !.ok = FALSE, !.error = "Product.DoesNotExist"]
    ELSE
      LET product == acc.products[item.product_id]
          quantity == item.quantity
          unit_price == IF item.unit_price = NoPrice THEN product.sale_price
                        ELSE item.unit_price
          t == CalculateTotals(quantity, unit_price, item.discount_percent,
                               product.tax_type)
          previous_stock == product.current_stock
          new_stock == previous_stock - quantity
          sale_item == [product          |-> item.product_id,
                        quantity         |-> quantity,
                        unit_price       |-> unit_price,
                        discount_percent |-> item.discount_percent,
                        tax_type         |-> product.tax_type,
                        discount_amount  |-> t.discount_amount,
                        subtotal         |-> t.subtotal,
                        tax_amount       |-> t.tax_amount]
          movement == [product        |-> item.product_id,
                       movement_type  |-> "sale",
                       quantity       |-> SaleMovementQuantity(quantity),
                       previous_stock |-> previous_stock,
                       new_stock      |-> new_stock,
                       reference      |-> invoice_number]
      IN [acc EXCEPT
            !.products[item.product_id].current_stock = new_stock,
            !.movements = Append(@, movement),
            !.items = Append(@, sale_item),
            !.total_subtotal = @ + t.subtotal,
            !.total_tax = @ + t.tax_amount,
            !.total_discount = @ + t.discount_amount]

RECURSIVE SaleLines(_, _, _, _)
SaleLines(acc, items_data, tenant, invoice_number) ==
    IF items_data = <<>> THEN acc
    ELSE SaleLines(SaleLine(acc, Head(items_data), tenant, invoice_number),
                   Tail(items_data), tenant, invoice_number)

\* Sale.outstanding_balance
OutstandingBalance(sale) == Max(0, sale.total_amount - sale.paid_amount)

\* line 122 with the tax taken out of the header subtotal
HeaderSubtotalNet(total_subtotal, total_tax) == total_subtotal - total_tax

\* line 122: sale.subtotal = int(total_subtotal)
HeaderSubtotal(total_subtotal, total_tax) == total_subtotal

\* lines 127-129: change_amount stays at the column default 0 unless paid in full
ChangeAmount(paid_amount, total_amount) ==
    IF paid_amount >= total_amount THEN paid_amount - total_amount ELSE 0

\* lines 12-13 without the decorator: what was written before the exception stays
AfterErrorNotAtomic(before, written) == written

\* lines 12-13, @transaction.atomic: an exception leaving create_sale rolls back
\* every write made so far, and the table is as it was before the call
AfterError(before, written) == before

CreateSale(tenant, items_data, customer, payment_method, paid_amount, currency_paid, paid_amount_original) ==
    LET invoice_number == NextInvoiceNumber(tenant)
        start == [ok |-> TRUE, error |-> "", products |-> products,
                  movements |-> movements, items |-> <<>>,
                  total_subtotal |-> 0, total_tax |-> 0, total_discount |-> 0]
        r == SaleLines(start, items_data, tenant, invoice_number)
        total_amount == r.total_subtotal
        sale == [tenant               |-> tenant,
                 invoice_number       |-> invoice_number,
                 customer             |-> customer,
                 payment_method       |-> payment_method,
                 paid_amount          |-> paid_amount,
                 currency_paid        |-> currency_paid,
                 paid_amount_original |-> paid_amount_original,
                 status               |-> "completed",
                 subtotal             |-> HeaderSubtotal(r.total_subtotal, r.total_tax),
                 tax_amount           |-> r.total_tax,
                 discount_amount      |-> r.total_discount,
                 total_amount         |-> total_amount,
                 change_amount        |-> ChangeAmount(paid_amount, total_amount),
                 created_at           |-> clock,
                 order                |-> None,
                 items                |-> r.items]
        call == [op |-> "create_sale", items_data |-> items_data,
                 pre_products |-> products, pre_customers |-> customers]
        \* the header of lines 50-69 and the items of the lines already processed
        partial == [sale EXCEPT !.subtotal = 0, !.tax_amount = 0,
                                !.discount_amount = 0, !.total_amount = 0,
                                !.change_amount = 0]
    IN IF ~r.ok
       THEN \* the exception leaves transaction.atomic
            /\ last' = call @@ [result |-> r.error, sale |-> 0]
            /\ products' = AfterError(products, r.products)
            /\ movements' = AfterError(movements, r.movements)
            /\ sales' = AfterError(sales, Append(sales, partial))
            /\ UNCHANGED <<customerVars, cashVars, supplierVars, clock, calc, requests>>
       ELSE /\ products' = r.products
            /\ movements' = r.movements
            /\ sales' = Append(sales, sale)
            /\ customers' =
                 IF payment_method = "credit" /\ customer # None
                 THEN [customers EXCEPT ![customer].current_balance =
                                            @ + OutstandingBalance(sale)]
                 ELSE customers
            /\ clock' = clock + 1
            /\ last' = call @@ [result |-> "ok", sale |-> Len(sales) + 1]
            /\ UNCHANGED <<accounts, cashVars, supplierVars, calc, requests>>

(***************************************************************************)
(* SaleService.cancel_sale                                                 *)
(***************************************************************************)
\* StockMovement.previous_stock and new_stock are NOT NULL columns without a
\* default (stock/models.py 161-162): a row created without them is refused by
\* the database with an IntegrityError.
MovementNeedsStockColumns == TRUE

\* line 146 without the test
AlreadyCancelledIgnored(sale) == FALSE

\* line 146
AlreadyCancelled(sale) == sale.status = "cancelled"

CancelSale(s) ==
    LET sale == sales[s]
        call == [op |-> "cancel_sale", sale |-> s, was |-> sale.status]
    IN IF AlreadyCancelled(sale)
       THEN /\ last' = call @@ [result |-> "ValueError"]
            /\ UNCHANGED <<stockVars, saleVars, customerVars, cashVars, supplierVars,
                           clock, calc, requests>>
       ELSE IF sale.items # <<>> /\ MovementNeedsStockColumns
       THEN \* lines 156-164 pass neither previous_stock nor new_stock: the first
            \* insert raises and transaction.atomic rolls the stock update back
            /\ last' = call @@ [result |-> "IntegrityError"]
            /\ UNCHANGED <<stockVars, saleVars, customerVars, cashVars, supplierVars,
                           clock, calc, requests>>
       ELSE /\ customers' =
                 IF sale.customer # None /\ sale.payment_method = "credit"
                 THEN [customers EXCEPT ![sale.customer].current_balance =
                                            @ - OutstandingBalance(sale)]
                 ELSE customers
            /\ sales' = [sales EXCEPT ![s].status = "cancelled"]
            /\ clock' = clock + 1
            /\ last' = call @@ [result |-> "ok"]
            /\ UNCHANGED <<stockVars, accounts, cashVars, supplierVars, calc, requests>>

(***************************************************************************)
(* StockService.adjust_stock and register_purchase                         *)
(***************************************************************************)
StockMove(product_id, movement_type, quantity) ==
    LET previous_stock == products[product_id].current_stock
        new_stock == previous_stock + quantity
    IN /\ products' = [products EXCEPT ![product_id].current_stock = new_stock]
       /\ movements' = Append(movements,
                              [product        |-> product_id,
                               movement_type  |-> movement_type,
                               quantity       |-> quantity,
                               previous_stock |-> previous_stock,
                               new_stock      |-> new_stock,
                               reference      |-> ""])

AdjustStock(product_id, quantity) ==
    /\ StockMove(product_id, "adjustment", quantity)
    /\ clock' = clock + 1
    /\ last' = [op |-> "adjust_stock", product |-> product_id, result |-> "ok"]
    /\ UNCHANGED <<saleVars, customerVars, cashVars, supplierVars, calc, requests>>

RegisterPurchase(product_id, quantity) ==
    /\ StockMove(product_id, "purchase", quantity)
    /\ clock' = clock + 1
    /\ last' = [op |-> "register_purchase", product |-> product_id, result |-> "ok"]
    /\ UNCHANGED <<saleVars, customerVars, cashVars, supplierVars, calc, requests>>

(***************************************************************************)
(* customers.views_accounts.register_payment (POST)                        *)
(***************************************************************************)
RegisterPayment(customer, amount) ==
    LET call == [op |-> "register_payment", customer |-> customer, amount |-> amount]
    IN IF amount <= 0
       THEN /\ last' = call @@ [result |-> "rejected"]
            /\ UNCHANGED <<stockVars, saleVars, customerVars, cashVars, supplierVars,
                           clock, calc, requests>>
       ELSE /\ accounts' = Append(accounts,
                                  [tenant           |-> customers[customer].tenant,
                                   customer         |-> customer,
                                   transaction_type |-> "payment",
                                   amount           |-> -amount,
                                   sale             |-> None])
            /\ clock' = clock + 1
            /\ last' = call @@ [result |-> "ok"]
            /\ UNCHANGED <<stockVars, saleVars, customers, cashVars, supplierVars, calc, requests>>

\* Customer.get_balance: Sum('amount') over the customer's account_transactions
GetBalance(customer) ==
    SumAmount(SelectSeq(accounts, LAMBDA e : e.customer = customer))

(***************************************************************************)
(* Sales specification: the settlement service, the stock ledger and the   *)
(* customer ledger                                                         *)
(***************************************************************************)
Line(p, q, price, d) ==
    [product_id |-> p, quantity |-> q, unit_price |-> price, discount_percent |-> d]

\* The carts offered to create_sale: empty, one line, a discounted line, an explicit
\* price, one product on two lines, and a second line naming an unknown product.
Carts ==
    { <<>>,
      <<Line("p1", 1, NoPrice, 0)>>,
      <<Line("p2", 2, NoPrice, 10)>>,
      <<Line("p2", 1, 5, 0)>>,
      <<Line("p1", 1, NoPrice, 0), Line("p1", 2, NoPrice, 0)>>,
      <<Line("p1", 1, NoPrice, 0), Line(NoSuchProduct, 1, NoPrice, 0)>> }

\* customer, payment method and amount paid (in guaranies) of a sale
SaleTerms ==
    { [customer |-> None, payment_method |-> "cash",   paid_amount |-> 30],
      [customer |-> "c1", payment_method |-> "credit", paid_amount |-> 0],
      [customer |-> "c1", payment_method |-> "credit", paid_amount |-> 30] }

DoCreateSale ==
    /\ clock < MaxOps
    /\ \E items_data \in Carts, t \in SaleTerms :
          CreateSale("t1", items_data, t.customer, t.payment_method, t.paid_amount,
                     "PYG", t.paid_amount)

DoCancelSale ==
    /\ \E s \in 1..Len(sales) : CancelSale(s)

DoAdjustStock ==
    /\ clock < MaxOps
    /\ \E p \in ProductIds, q \in StockDeltas : AdjustStock(p, q)

DoRegisterPurchase ==
    /\ clock < MaxOps
    /\ \E p \in ProductIds, q \in PurchaseQuantities : RegisterPurchase(p, q)

DoRegisterPayment ==
    /\ clock < MaxOps
    /\ \E c \in CustomerIds, amount \in PaymentAmounts : RegisterPayment(c, amount)

NextSales ==
    \/ DoCreateSale
    \/ DoCancelSale
    \/ DoAdjustStock
    \/ DoRegisterPurchase
    \/ DoRegisterPayment

SpecSales == Init /\ [][NextSales]_vars

(***************************************************************************)
(* Properties of the sales specification                                   *)
(***************************************************************************)
\* Sum of the stored quantity column over the StockMovement rows of a product
MovementSum(product_id) ==
    SumQuantity(SelectSeq(movements, LAMBDA m : m.product = product_id))

\* C1: from stock 0 and no movements, after any sequence of create_sale,
\* cancel_sale, adjust_stock and register_purchase, every product's current_stock
\* equals the sum of the signed quantities of its StockMovement rows.
C1_StockIsMovementSum ==
    \A p \in AllProductIds : products[p].current_stock = MovementSum(p)

\* Some line of the cart asks for more than its product's current_stock
ExceedsStock(items_data, prods) ==
    \E i \in 1..Len(items_data) :
        /\ items_data[i].product_id \in DOMAIN prods
        /\ items_data[i].quantity > prods[items_data[i].product_id].current_stock

\* C2: a create_sale whose cart has a line with quantity above the product's
\* current_stock fails as a whole: no Sale, SaleItem or StockMovement row is
\* created and every current_stock is unchanged.
C2_InsufficientStockAborts ==
    [][ (last'.op = "create_sale" /\ ExceedsStock(last'.items_data, products))
        => /\ last'.result # "ok"
           /\ sales' = sales
           /\ movements' = movements
           /\ products' = products ]_vars

\* The products on the lines of a sale
ProductsOnSale(sale) == {sale.items[i].product : i \in 1..Len(sale.items)}

\* C3: a cancel_sale that follows the create_sale of the same sale restores the
\* current_stock of every product on the sale to its value before the sale and,
\* for a credit sale with a customer, the customer's current_balance.
C3_CancelRestores ==
    [][ (/\ last.op = "create_sale" /\ last.result = "ok"
         /\ last'.op = "cancel_sale" /\ last'.sale = last.sale)
        => /\ \A p \in ProductsOnSale(sales[last.sale]) :
                 products'[p].current_stock = last.pre_products[p].current_stock
           /\ (sales[last.sale].payment_method = "credit"
               /\ sales[last.sale].customer # None)
              => customers'[sales[last.sale].customer].current_balance =
                   last.pre_customers[sales[last.sale].customer].current_balance
      ]_vars

\* C4: cancel_sale on a sale that is already cancelled raises and changes no
\* sale, stock, movement or customer balance; a cancelled sale stays cancelled.
C4_CancelledIsTerminal ==
    [][ /\ (last'.op = "cancel_sale" /\ sales[last'.sale].status = "cancelled")
           => /\ last'.result = "ValueError"
              /\ sales' = sales
              /\ products' = products
              /\ movements' = movements
              /\ customers' = customers
              /\ accounts' = accounts
        /\ \A s \in 1..Len(sales) :
              sales[s].status = "cancelled"
              => Len(sales') >= s /\ sales'[s].status = "cancelled" ]_vars

\* a second cancel_sale of a cancelled sale has been refused
C4_Witness ==
    /\ last.op = "cancel_sale"
    /\ last.was = "cancelled"
    /\ last.result = "ValueError"
    /\ sales[last.sale].status = "cancelled"

\* C5: after any sequence of credit sales, customer payments and cancellations,
\* each customer's stored current_balance equals the sum of the signed amounts of
\* the customer's CustomerAccount entries (get_balance).
C5_BalanceIsLedgerSum ==
    \A c \in CustomerIds : customers[c].current_balance = GetBalance(c)

\* C6: every sale produced by create_sale has total_amount = subtotal + tax_amount
\* on its header.
C6_TotalIsSubtotalPlusTax ==
    \A s \in 1..Len(sales) :
        sales[s].total_amount = sales[s].subtotal + sales[s].tax_amount

(***************************************************************************)
(* SaleItem.calculate_totals on its own                                    *)
(***************************************************************************)
CalcQuantities == {1, 2}
CalcDiscounts == {0, 10}

InitTax ==
    /\ InitStore
    /\ calc \in {[NoCalc EXCEPT !.quantity = q, !.unit_price = u,
                                !.discount_percent = d, !.tax_type = t] :
                    q \in CalcQuantities, u \in 0..MaxTotal, d \in CalcDiscounts,
                    t \in TaxTypes}

Calculate ==
    /\ ~calc.done
    /\ LET t == CalculateTotals(calc.quantity, calc.unit_price, calc.discount_percent,
                                calc.tax_type)
       IN calc' = [calc EXCEPT !.done = TRUE,
                               !.discount_amount = t.discount_amount,
                               !.subtotal = t.subtotal,
                               !.tax_amount = t.tax_amount]
    /\ UNCHANGED <<stockVars, saleVars, customerVars, cashVars, supplierVars,
                   clock, last, requests>>

NextTax == Calculate

SpecTax == InitTax /\ [][NextTax]_vars

\* base * (1 + rate), rounded half-up to a whole unit, for the base left after
\* taking tax_amount out of the tax-inclusive total
RoundTrip(total, tax_amount, tax_type) ==
    RoundHalfUp((total - tax_amount) * (100 + TaxRatePct(tax_type)), 100)

\* C7 as stated: for every non-negative tax-inclusive total and every rate, the
\* base total - tax_amount, times (1 + rate), rounded half-up, is the total again.
C7_RoundTripEveryTotal ==
    calc.done => RoundTrip(calc.subtotal, calc.tax_amount, calc.tax_type) = calc.subtotal

\* the total is what some whole base becomes when the tax is added and rounded
IsGrossOfWholeBase(total, tax_type) ==
    \E b \in 0..total : RoundHalfUp(b * (100 + TaxRatePct(tax_type)), 100) = total

\* C7, amended: the round trip gives back every total that is the half-up rounding
\* of a whole base times (1 + rate) (every exempt total; 1100 at 10%; 1050 at 5%),
\* and for any other total it is off by at most one unit.
C7_RoundTripOfGrossTotals ==
    calc.done =>
        LET back == RoundTrip(calc.subtotal, calc.tax_amount, calc.tax_type)
        IN /\ Abs(back - calc.subtotal) <= 1
           /\ IsGrossOfWholeBase(calc.subtotal, calc.tax_type) => back = calc.subtotal

\* 1100 at 10% has been decomposed into base 1000 and tax 100
C7_Witness ==
    /\ calc.done
    /\ calc.subtotal = 1100 /\ calc.tax_type = "10" /\ calc.tax_amount = 100
    /\ RoundTrip(calc.subtotal, calc.tax_amount, calc.tax_type) = 1100

\* total / (1 + rate), rounded half-up to a whole unit
BaseOfTotal(total, tax_type) == RoundHalfUp(total * 100, 100 + TaxRatePct(tax_type))

\* C23: for every non-negative whole tax-inclusive line total and every tax
\* category, the tax_amount of calculate_totals is
\* total - round_half_up(total / (1 + rate)) with rate 0, 5% or 10%; an exempt
\* line has tax 0 and a base equal to the total.
C23_TaxIsTotalMinusRoundedBase ==
    calc.done =>
        /\ calc.tax_amount = calc.subtotal - BaseOfTotal(calc.subtotal, calc.tax_type)
        /\ calc.tax_type = "EXENTA" =>
              /\ calc.tax_amount = 0
              /\ calc.subtotal - calc.tax_amount = calc.subtotal

\* C23 witness: the three categories on totals that do not divide evenly: 21 at
\* 5% (base 20, tax 1), 1099 at 10% (base 999, tax 100), and an exempt 21
C23_Witness ==
    /\ calc.done
    /\ \/ calc.subtotal = 21 /\ calc.tax_type = "5" /\ calc.tax_amount = 1
       \/ calc.subtotal = 1099 /\ calc.tax_type = "10" /\ calc.tax_amount = 100
       \/ calc.subtotal = 21 /\ calc.tax_type = "EXENTA" /\ calc.tax_amount = 0

(***************************************************************************)
(* Cash register: open_cash_register, close_cash_register                  *)
(***************************************************************************)
Currencies == {"PYG", "USD", "BRL"}

ExchangeRateUSD == 7300
ExchangeRateBRL == 1450

\* sales/views.py 106-114: the amount paid, converted to guaranies
PaidAmountPYG(currency_paid, paid_amount_original) ==
    IF currency_paid = "USD" THEN paid_amount_original * ExchangeRateUSD
    ELSE IF currency_paid = "BRL" THEN paid_amount_original * ExchangeRateBRL
    ELSE paid_amount_original

ZeroAmounts == [c \in Currencies |-> 0]

RECURSIVE SumPaidOriginal(_)
\* aggregate(total=Sum('paid_amount_original'))['total'] or 0
SumPaidOriginal(rows) ==
    IF rows = <<>> THEN 0
    ELSE Head(rows).paid_amount_original + SumPaidOriginal(Tail(rows))

\* CashRegister.get_total_sales: the tenant's sales made while the register was
\* open (from opened_at, and up to closed_at once it is closed)
GetTotalSales(register) ==
    SelectSeq(sales, LAMBDA s :
        /\ s.tenant = register.tenant
        /\ s.created_at >= register.opened_at
        /\ (register.status = "closed" => s.created_at <= register.closed_at))

\* lines 118-131 without the payment_method='cash' filter
ExpectedAmountAnyMethod(register, currency) ==
    register.initial_amount[currency]
    + SumPaidOriginal(SelectSeq(GetTotalSales(register),
                                LAMBDA s : s.currency_paid = currency))

\* lines 118-131: initial amount plus the cash sales paid in the currency
ExpectedAmount(register, currency) ==
    register.initial_amount[currency]
    + SumPaidOriginal(SelectSeq(GetTotalSales(register),
                                LAMBDA s : /\ s.currency_paid = currency
                                           /\ s.payment_method = "cash"))

\* lines 68-71 never finding a register
OpenRegisterNotFound(tenant) == FALSE

\* lines 68-71: CashRegister.objects.filter(tenant=..., status='open').first()
HasOpenRegister(tenant) ==
    \E r \in 1..Len(registers) :
        registers[r].tenant = tenant /\ registers[r].status = "open"

OpenCashRegister(tenant, initial) ==
    LET call == [op |-> "open_cash_register", tenant |-> tenant]
    IN IF HasOpenRegister(tenant)
       THEN /\ last' = call @@ [result |-> "already_open"]
            /\ UNCHANGED <<stockVars, saleVars, customerVars, cashVars, supplierVars,
                           clock, calc, requests>>
       ELSE /\ registers' = Append(registers,
                                   [tenant          |-> tenant,
                                    status          |-> "open",
                                    opened_at       |-> clock,
                                    closed_at       |-> None,
                                    initial_amount  |-> initial,
                                    expected_amount |-> ZeroAmounts,
                                    actual_amount   |-> ZeroAmounts,
                                    difference      |-> ZeroAmounts])
            /\ clock' = clock + 1
            /\ last' = call @@ [result |-> "ok"]
            /\ UNCHANGED <<stockVars, saleVars, customerVars, supplierVars, calc, requests>>

\* lines 102-107 without status='open'
RegisterOfTenant(tenant, pk) ==
    /\ pk \in 1..Len(registers)
    /\ registers[pk].tenant = tenant

\* lines 102-107: get_object_or_404(CashRegister, id=pk, tenant=..., status='open')
\* finds the row
OpenRegisterOfTenant(tenant, pk) ==
    /\ pk \in 1..Len(registers)
    /\ registers[pk].tenant = tenant
    /\ registers[pk].status = "open"

CloseCashRegister(tenant, pk, actual) ==
    LET call == [op |-> "close_cash_register", tenant |-> tenant, pk |-> pk]
    IN IF ~OpenRegisterOfTenant(tenant, pk)
       THEN \* get_object_or_404(CashRegister, id=pk, tenant=..., status='open')
            /\ last' = call @@ [result |-> "Http404"]
            /\ UNCHANGED <<stockVars, saleVars, customerVars, cashVars, supplierVars,
                           clock, calc, requests>>
       ELSE LET cash_register == registers[pk]
                expected == [c \in Currencies |-> ExpectedAmount(cash_register, c)]
                diff == [c \in Currencies |-> actual[c] - expected[c]]
            IN /\ registers' = [registers EXCEPT ![pk] =
                                  [@ EXCEPT !.closed_at = clock,
                                            !.expected_amount = expected,
                                            !.actual_amount = actual,
                                            !.difference = diff,
                                            !.status = "closed"]]
               /\ clock' = clock + 1
               /\ last' = call @@ [result |-> "ok"]
               /\ UNCHANGED <<stockVars, saleVars, customerVars, supplierVars, calc, requests>>

(***************************************************************************)
(* Cash specification: registers of two tenants and the sales they ring up *)
(***************************************************************************)
InitialAmounts ==
    { [PYG |-> 1000, USD |-> 0, BRL |-> 0], [PYG |-> 0, USD |-> 10, BRL |-> 5] }

ActualAmounts ==
    { [PYG |-> 1500, USD |-> 0, BRL |-> 0], [PYG |-> 2000, USD |-> 12, BRL |-> 8] }

\* currency and amount handed over, in that currency
Payments ==
    { [currency_paid |-> "PYG", paid_amount_original |-> 500],
      [currency_paid |-> "USD", paid_amount_original |-> 2],
      [currency_paid |-> "BRL", paid_amount_original |-> 3] }

CashCart(tenant) ==
    <<Line(IF tenant = "t1" THEN "p1" ELSE "p3", 1, NoPrice, 0)>>

DoCashSale ==
    /\ clock < MaxCashOps
    /\ \E tenant \in Tenants, payment_method \in {"cash", "card"}, pay \in Payments :
          CreateSale(tenant, CashCart(tenant), None, payment_method,
                     PaidAmountPYG(pay.currency_paid, pay.paid_amount_original),
                     pay.currency_paid, pay.paid_amount_original)

DoOpenCashRegister ==
    /\ clock < MaxCashOps
    /\ \E tenant \in Tenants, initial \in InitialAmounts :
          OpenCashRegister(tenant, initial)

DoCloseCashRegister ==
    /\ clock < MaxCashOps
    /\ \E tenant \in Tenants, pk \in 1..Len(registers), actual \in ActualAmounts :
          CloseCashRegister(tenant, pk, actual)

NextCash ==
    \/ DoCashSale
    \/ DoOpenCashRegister
    \/ DoCloseCashRegister

SpecCash == Init /\ [][NextCash]_vars

\* C8: opening a cash register for a tenant that already has an open register
\* fails: no CashRegister row is created and the open register is unchanged.
C8_SecondOpenRefused ==
    [][ (/\ last'.op = "open_cash_register"
         /\ \E r \in 1..Len(registers) :
               registers[r].tenant = last'.tenant /\ registers[r].status = "open")
        => /\ last'.result = "already_open"
           /\ registers' = registers ]_vars

\* an open request has been refused while the tenant's register stays open, and
\* the other tenant could still open its own
C8_Witness ==
    /\ last.op = "open_cash_register"
    /\ last.result = "already_open"
    /\ Len(registers) = 2
    /\ registers[1].tenant # registers[2].tenant
    /\ \A r \in 1..2 : registers[r].status = "open"

\* the cash-method sales of the register's open window paid in the currency
CashSalesInWindow(r, currency) ==
    SelectSeq(sales, LAMBDA s :
        /\ s.tenant = registers[r].tenant
        /\ s.created_at >= registers[r].opened_at
        /\ s.created_at <= registers[r].closed_at
        /\ s.payment_method = "cash"
        /\ s.currency_paid = currency)

\* C9: a closed register stores, for each of PYG, USD and BRL, expected = initial
\* amount + sum of paid_amount_original over the register's cash-method sales paid
\* in that currency, and difference = actual - expected; counting expected + 500
\* in PYG gives difference_pyg = 500.
C9_ExpectedAndDifference ==
    \A r \in 1..Len(registers) :
        registers[r].status = "closed" =>
            /\ \A c \in Currencies :
                  /\ registers[r].expected_amount[c] =
                        registers[r].initial_amount[c]
                        + SumPaidOriginal(CashSalesInWindow(r, c))
                  /\ registers[r].difference[c] =
                        registers[r].actual_amount[c] - registers[r].expected_amount[c]
            /\ registers[r].actual_amount["PYG"] = registers[r].expected_amount["PYG"] + 500
               => registers[r].difference["PYG"] = 500

\* a register that took a cash sale in guaranies was closed with 500 more than
\* expected
C9_Witness ==
    \E r \in 1..Len(registers) :
        /\ registers[r].status = "closed"
        /\ CashSalesInWindow(r, "PYG") # <<>>
        /\ registers[r].expected_amount["PYG"] = 1500
        /\ registers[r].actual_amount["PYG"] = 2000
        /\ registers[r].difference["PYG"] = 500

(***************************************************************************)
(* Supplier ledger: create_purchase, create_payment                        *)
(***************************************************************************)
Suppliers == {"s1", "s2"}

SupplierTenant(supplier) == "t1"

\* Supplier.payment_terms_days
PaymentTermsDays(supplier) == IF supplier = "s1" THEN 30 ELSE 15

\* timezone.now().date(), as a day number
Today == clock

NoDate == -1

NoDueDate == [kind |-> "none", day |-> NoDate]

SupplierAccountRow(supplier, transaction_type, amount, due_date) ==
    [tenant             |-> SupplierTenant(supplier),
     supplier           |-> supplier,
     transaction_type   |-> transaction_type,
     amount             |-> amount,
     transaction_date   |-> Today,
     due_date           |-> due_date,
     paid_date          |-> NoDate,
     total_installments |-> 1,
     installment_number |-> 1,
     parent_transaction |-> 0,
     related_purchase   |-> 0]

\* line 58 offsetting the first installment too
InstallmentDueDateFromNext(due_date, i) == due_date + 30 * i

\* line 58: due_date + timedelta(days=30 * (i - 1))
InstallmentDueDate(due_date, i) == due_date + 30 * (i - 1)

RECURSIVE Installments(_, _, _, _, _, _)
\* lines 56-75: the rows of installments i..installments
Installments(supplier, amount_per_installment, due_date, installments, parent, i) ==
    IF i > installments THEN <<>>
    ELSE <<[SupplierAccountRow(supplier, "purchase", amount_per_installment,
                               InstallmentDueDate(due_date, i))
              EXCEPT !.total_installments = installments,
                     !.installment_number = i,
                     !.parent_transaction = parent]>>
         \o Installments(supplier, amount_per_installment, due_date, installments,
                         parent, i + 1)

CreatePurchase(supplier, amount, due_date, installments) ==
    LET call == [op |-> "create_purchase", supplier |-> supplier, amount |-> amount,
                 due_date |-> due_date, installments |-> installments,
                 today |-> Today]
        \* lines 16-17
        base_due_date == IF due_date.kind = "none"
                         THEN Today + PaymentTermsDays(supplier)
                         ELSE due_date.day
        parent == Len(supplierAccounts) + 1
        fail(error) ==
            /\ last' = call @@ [result |-> error]
            /\ UNCHANGED <<stockVars, saleVars, customerVars, cashVars, supplierVars,
                           clock, calc, requests>>
        done(rows) ==
            /\ supplierAccounts' = supplierAccounts \o rows
            /\ clock' = clock + 1
            /\ last' = call @@ [result |-> "ok"]
            /\ UNCHANGED <<stockVars, saleVars, customerVars, cashVars, calc, requests>>
    IN IF installments = 1
       THEN done(<<SupplierAccountRow(supplier, "purchase", amount, base_due_date)>>)
       ELSE IF installments = 0
       THEN \* line 53 divides by zero; the atomic block drops the parent row
            fail("ZeroDivisionError")
       ELSE IF due_date.kind = "str"
       THEN \* line 58 adds a timedelta to the text the form sent; the atomic
            \* block drops the parent row
            fail("TypeError")
       ELSE done(<<[SupplierAccountRow(supplier, "purchase", amount, base_due_date)
                      EXCEPT !.total_installments = installments,
                             !.installment_number = 0]>>
                 \o Installments(supplier, RoundHalfEven(amount, installments),
                                 base_due_date, installments, parent, 1))

\* line 102, related_purchase.amount == amount: the column's Decimal against the
\* float payment_create hands over.  Python compares the two exact values, and
\* a float is exactly an amount of hundredths only when amount/100 is a binary
\* fraction, that is when the hundredths are a multiple of 25.
AmountEqualsFloat(decimal_amount, amount) ==
    /\ decimal_amount = amount
    /\ amount % 25 = 0

\* a payment entry that carries the amount with the sign turned
SupplierPaymentAmountNegated(amount) == -amount

\* line 92, amount=amount: the payment entry carries the amount as given
SupplierPaymentAmount(amount) == amount

CreatePayment(supplier, amount, related_purchase) ==
    LET payment == [SupplierAccountRow(supplier, "payment",
                                       SupplierPaymentAmount(amount), NoDate)
                      EXCEPT !.related_purchase = related_purchase]
        \* lines 102-104
        marked == IF /\ related_purchase # 0
                     /\ AmountEqualsFloat(supplierAccounts[related_purchase].amount,
                                          amount)
                  THEN [supplierAccounts EXCEPT ![related_purchase].paid_date = Today]
                  ELSE supplierAccounts
    IN /\ supplierAccounts' = Append(marked, payment)
       /\ clock' = clock + 1
       /\ last' = [op |-> "create_payment", supplier |-> supplier, amount |-> amount,
                   related_purchase |-> related_purchase, result |-> "ok"]
       /\ UNCHANGED <<stockVars, saleVars, customerVars, cashVars, calc, requests>>

\* Supplier.get_balance: purchases with installment_number > 0, minus payments
\* (no adjustment entry is written by the services)
SupplierGetBalance(supplier) ==
    SumAmount(SelectSeq(supplierAccounts,
                        LAMBDA e : /\ e.supplier = supplier
                                   /\ e.transaction_type = "purchase"
                                   /\ e.installment_number > 0))
    - SumAmount(SelectSeq(supplierAccounts,
                          LAMBDA e : /\ e.supplier = supplier
                                     /\ e.transaction_type = "payment"))

(***************************************************************************)
(* Supplier specification: purchases and payments entered on the forms     *)
(***************************************************************************)
\* 300000.00 and 100.00
PurchaseAmounts == {30000000, 10000}

DueDateOnForm == 40

\* the form's due date left empty, as a date, and as the text purchase_create
\* hands over
DueDates ==
    { NoDueDate,
      [kind |-> "date", day |-> DueDateOnForm],
      [kind |-> "str", day |-> DueDateOnForm] }

DoCreatePurchase ==
    /\ clock < MaxSupplierOps
    /\ \E supplier \in Suppliers, amount \in PurchaseAmounts, due_date \in DueDates,
          installments \in 0..MaxInstallments :
          CreatePurchase(supplier, amount, due_date, installments)

\* 100.00 and 33.33, the amount of one of three installments of 100.00
PaymentFormAmounts == {10000, 3333}

DoCreatePayment ==
    /\ clock < MaxSupplierOps
    /\ \E supplier \in Suppliers, amount \in PaymentFormAmounts,
          related_purchase \in 0..Len(supplierAccounts) :
          /\ related_purchase # 0 =>
                supplierAccounts[related_purchase].tenant = SupplierTenant(supplier)
          /\ CreatePayment(supplier, amount, related_purchase)

NextSuppliers ==
    \/ DoCreatePurchase
    \/ DoCreatePayment

SpecSuppliers == Init /\ [][NextSuppliers]_vars

\* C10: create_purchase(supplier, amount, installments=N) with N > 1 creates
\* exactly one parent row with installment_number 0 plus exactly N child rows
\* numbered 1..N that reference the parent, each child with amount = amount/N and
\* due_date = base due date + 30*(i-1) days for child i.
C10_ParentAndInstallments ==
    [][ (last'.op = "create_purchase" /\ last'.installments > 1)
        => LET n == last'.installments
               before == Len(supplierAccounts)
               parent == supplierAccounts'[before + 1]
               base == IF last'.due_date.kind = "none"
                       THEN last'.today + PaymentTermsDays(last'.supplier)
                       ELSE last'.due_date.day
           IN /\ last'.result = "ok"
              /\ Len(supplierAccounts') = before + n + 1
              /\ SubSeq(supplierAccounts', 1, before) = supplierAccounts
              /\ parent.installment_number = 0
              /\ parent.amount = last'.amount
              /\ \A i \in 1..n :
                    LET child == supplierAccounts'[before + 1 + i]
                    IN /\ child.installment_number = i
                       /\ child.parent_transaction = before + 1
                       /\ child.amount * n = last'.amount
                       /\ child.due_date = base + 30 * (i - 1) ]_vars

\* C21: create_payment for a supplier with a related_purchase whose paid_date is
\* already set is rejected and mutates nothing: no payment entry is created and
\* the purchase's paid_date is unchanged.
C21_PaidPurchaseRejectsPayment ==
    [][ ( /\ last'.op = "create_payment"
          /\ last'.related_purchase # 0
          /\ supplierAccounts[last'.related_purchase].paid_date # NoDate )
        => /\ last'.result # "ok"
           /\ supplierAccounts' = supplierAccounts ]_vars

\* C26: create_payment with a related_purchase sets that purchase's paid_date if
\* and only if the payment amount equals the purchase's amount exactly; a
\* smaller or larger amount, or no related_purchase, leaves every paid_date as
\* it was and only adds the payment entry.
C26_PaidIffAmountEqual ==
    [][ (last'.op = "create_payment" /\ last'.result = "ok")
        => LET before == Len(supplierAccounts)
               entry == supplierAccounts'[before + 1]
           IN /\ Len(supplierAccounts') = before + 1
              /\ entry.transaction_type = "payment"
              /\ entry.related_purchase = last'.related_purchase
              /\ \A i \in 1..before :
                    supplierAccounts'[i]
                       = IF /\ i = last'.related_purchase
                            /\ supplierAccounts[i].amount = last'.amount
                         THEN [supplierAccounts[i] EXCEPT !.paid_date = Today]
                         ELSE supplierAccounts[i] ]_vars

\* C28: a purchase entered in N installments raises Supplier.get_balance by
\* exactly the purchase amount: the parent row is not counted and the N children
\* sum to the parent's amount, for every amount and N, also when the amount is not
\* divisible by N.
C28_InstallmentsRaiseBalanceByAmount ==
    [][ (last'.op = "create_purchase" /\ last'.result = "ok" /\ last'.installments > 1)
        => \A s \in Suppliers :
              s = last'.supplier
                 => SupplierGetBalance(s)' = SupplierGetBalance(s) + last'.amount ]_vars

\* C29: a payment for one supplier never changes a ledger row of another
\* supplier: create_payment sets paid_date only on a related_purchase of the
\* same supplier and tenant.
C29_PaymentTouchesOwnSupplierOnly ==
    [][ last'.op = "create_payment"
        => \A i \in 1..Len(supplierAccounts) :
              supplierAccounts[i].supplier # last'.supplier
                 => supplierAccounts'[i] = supplierAccounts[i] ]_vars

(***************************************************************************)
(* orders.views.order_generate_sale                                        *)
(*                                                                         *)
(* Order and OrderItem rows are not written by this view, so the orders    *)
(* it is asked about are fixed rows.  Order amounts have two decimals and  *)
(* are held in hundredths; the Sale takes their integer part.  The view    *)
(* links the Sale to the order (Sale.objects.create(order=order)), the     *)
(* link Order.has_sale follows through the reverse name 'sales'.           *)
(***************************************************************************)
MaxOrderOps == 3     \* calls that write to the store, in the order runs

\* int(x) of a non-negative two-decimal amount held in hundredths
IntPart(hundredths) == hundredths \div 100

\* OrderItem after recalculate_totals (orders/models.py 192-208)
OrderLine(p, q, price) ==
    LET total == q * price * 100
        pct == TaxRatePct(InitProducts[p].tax_type)
        base_amount == IF pct = 0 THEN total ELSE RoundHalfEven(total * 100, 100 + pct)
    IN [product     |-> p,
        quantity    |-> q,
        unit_price  |-> price * 100,
        tax_type    |-> InitProducts[p].tax_type,
        base_amount |-> base_amount,
        tax_amount  |-> total - base_amount,
        total       |-> total]

RECURSIVE SumField(_, _)
\* sum(item.<field> for item in items) of Order.calculate_totals
SumField(items, field) ==
    IF items = <<>> THEN 0 ELSE Head(items)[field] + SumField(Tail(items), field)

\* Order with the totals of Order.calculate_totals (orders/models.py 96-103)
OrderRow(status, items) ==
    [tenant    |-> "t1",
     customer  |-> "c1",
     status    |-> status,
     items     |-> items,
     subtotal  |-> SumField(items, "base_amount"),
     total_tax |-> SumField(items, "tax_amount"),
     total     |-> SumField(items, "total")]

OrderIds == {"o1", "o2", "o3", "o4", "o5"}

\* two completed one-line orders, a completed order with one product on two
\* lines, an order still pending, and a completed order without items
Orders ==
    [o \in OrderIds |->
        IF o = "o1" THEN OrderRow("completed", <<OrderLine("p1", 1, 21)>>)
        ELSE IF o = "o2" THEN OrderRow("completed", <<OrderLine("p1", 1, 20)>>)
        ELSE IF o = "o3" THEN OrderRow("completed", <<OrderLine("p1", 2, 21),
                                                     OrderLine("p1", 1, 21)>>)
        ELSE IF o = "o4" THEN OrderRow("pending", <<OrderLine("p1", 1, 21)>>)
        ELSE OrderRow("completed", <<>>)]

\* order.sales, the reverse of the link Sale.order: the sales made from the order
SalesOfOrder(o) == { s \in 1..Len(sales) : sales[s].order = o }

\* has_sale when the order has no attribute named sales
HasSaleWithoutReverseName(o) == FALSE

\* Order.has_sale: hasattr(self, 'sales') and self.sales.exists()
HasSale(o) == SalesOfOrder(o) # {}

TicksPerSecond == 3
FirstSecond == 1000000

\* int of timezone.now().strftime("%Y%m%d%H%M%S"): the wall clock cut to whole
\* seconds, so requests served within one second read the same value
TimestampSeconds == FirstSecond + clock \div TicksPerSecond

\* lines 147-158: some line asks for more than its product has at the time of the
\* check; each line is tested on its own against the stock before the sale
StockInsufficient(order) ==
    \E i \in 1..Len(order.items) :
        products[order.items[i].product].current_stock < order.items[i].quantity

\* lines 190-222, one pass of the loop over order.items.all()
OrderSaleLine(acc, order_item, invoice_number) ==
    LET quantity_needed == order_item.quantity
        previous_stock == acc.products[order_item.product].current_stock
        new_stock == previous_stock - quantity_needed
    IN [acc EXCEPT
          !.products[order_item.product].current_stock = new_stock,
          !.items = Append(@, [product          |-> order_item.product,
                               quantity         |-> quantity_needed,
                               unit_price       |-> IntPart(order_item.unit_price),
                               discount_percent |-> 0,
                               tax_type         |-> order_item.tax_type,
                               discount_amount  |-> 0,
                               subtotal         |-> IntPart(order_item.total),
                               tax_amount       |-> IntPart(order_item.tax_amount)]),
          !.movements = Append(@, [product        |-> order_item.product,
                                   movement_type  |-> "sale",
                                   quantity       |-> -quantity_needed,
                                   previous_stock |-> previous_stock,
                                   new_stock      |-> new_stock,
                                   reference      |-> invoice_number])]

RECURSIVE OrderSaleLines(_, _, _)
OrderSaleLines(acc, items, invoice_number) ==
    IF items = <<>> THEN acc
    ELSE OrderSaleLines(OrderSaleLine(acc, Head(items), invoice_number),
                        Tail(items), invoice_number)

\* lines 224-239 pass balance= and description=, which CustomerAccount does not
\* have (customers/models.py 178-219): the constructor raises TypeError
CustomerAccountTakesOrderFields == FALSE

OrderGenerateSale(o, payment_method, amount_received) ==
    LET order == Orders[o]
        call == [op |-> "order_generate_sale", order |-> o,
                 payment_method |-> payment_method, pre_products |-> products]
        refuse(why) ==
            /\ last' = call @@ [result |-> why, sale |-> 0]
            /\ UNCHANGED <<stockVars, saleVars, customerVars, cashVars, supplierVars,
                           clock, calc, requests>>
        total == IntPart(order.total)
        invoice_number == [prefix |-> "V", number |-> TimestampSeconds]
        r == OrderSaleLines([products |-> products, movements |-> movements,
                             items |-> <<>>], order.items, invoice_number)
        sale == [tenant               |-> order.tenant,
                 invoice_number       |-> invoice_number,
                 customer             |-> order.customer,
                 payment_method       |-> payment_method,
                 paid_amount          |-> IF payment_method = "credit" THEN 0
                                          ELSE IF payment_method = "cash"
                                          THEN amount_received ELSE total,
                 currency_paid        |-> "PYG",
                 paid_amount_original |-> 0,
                 status               |-> IF payment_method = "credit" THEN "pending"
                                          ELSE "completed",
                 subtotal             |-> IntPart(order.subtotal),
                 tax_amount           |-> IntPart(order.total_tax),
                 discount_amount      |-> 0,
                 total_amount         |-> total,
                 change_amount        |-> IF payment_method = "cash"
                                          THEN amount_received - total ELSE 0,
                 created_at           |-> clock,
                 order                |-> o,
                 items                |-> r.items]
    IN IF order.status # "completed" THEN refuse("not_completed")
       ELSE IF HasSale(o) THEN refuse("has_sale")
       ELSE IF order.items = <<>> THEN refuse("no_items")
       ELSE IF StockInsufficient(order) THEN refuse("insufficient_stock")
       ELSE IF payment_method = "cash" /\ amount_received * 100 < order.total
       THEN refuse("insufficient_amount")
       ELSE IF payment_method = "credit" /\ ~CustomerAccountTakesOrderFields
       THEN \* the exception leaves the view's transaction.atomic: the Sale, its
            \* items, the stock updates and the movements are rolled back
            refuse("TypeError")
       ELSE /\ products' = r.products
            /\ movements' = r.movements
            /\ sales' = Append(sales, sale)
            /\ accounts' =
                 IF payment_method = "credit"
                 THEN Append(accounts, [tenant           |-> order.tenant,
                                        customer         |-> order.customer,
                                        transaction_type |-> "sale",
                                        amount           |-> IntPart(order.total),
                                        sale             |-> Len(sales) + 1])
                 ELSE accounts
            /\ clock' = clock + 1
            /\ last' = call @@ [result |-> "ok", sale |-> Len(sales) + 1]
            /\ UNCHANGED <<customers, cashVars, supplierVars, calc, requests>>

(***************************************************************************)
(* Order specification: the sales specification plus sales generated from  *)
(* orders                                                                  *)
(***************************************************************************)
\* payment method and, for cash, the amount received on the form
OrderPayments ==
    { [payment_method |-> "cash",   amount_received |-> 70],
      [payment_method |-> "cash",   amount_received |-> 10],
      [payment_method |-> "card",   amount_received |-> 0],
      [payment_method |-> "credit", amount_received |-> 0] }

DoOrderGenerateSale ==
    /\ clock < MaxOrderOps
    /\ \E o \in OrderIds, pay \in OrderPayments :
          OrderGenerateSale(o, pay.payment_method, pay.amount_received)

NextOrders ==
    \/ DoCreateSale
    \/ DoCancelSale
    \/ DoAdjustStock
    \/ DoRegisterPurchase
    \/ DoRegisterPayment
    \/ DoOrderGenerateSale

SpecOrders == Init /\ [][NextOrders]_vars

\* C11: every StockMovement row written by create_sale, cancel_sale, adjust_stock,
\* register_purchase or order_generate_sale records previous_stock and new_stock
\* with new_stock = previous_stock + quantity, quantity being the signed quantity
\* stored on the row.
C11_MovementRecordsStockChange ==
    \A m \in 1..Len(movements) :
        movements[m].new_stock = movements[m].previous_stock + movements[m].quantity

\* C12: within one tenant no two Sale rows have the same invoice_number, whether
\* made by create_sale or generated from an order, and each create_sale assigns a
\* number greater than every number issued before it for that tenant.
C12_InvoiceNumbersUniqueIncreasing ==
    [][ /\ \A i, j \in 1..Len(sales') :
              (i # j /\ sales'[i].tenant = sales'[j].tenant)
              => sales'[i].invoice_number # sales'[j].invoice_number
        /\ (last'.op = "create_sale" /\ last'.result = "ok" /\ Len(sales') > Len(sales))
           => \A i \in 1..Len(sales) :
                 sales[i].tenant = sales'[Len(sales')].tenant
                 => sales'[Len(sales')].invoice_number.number
                       > sales[i].invoice_number.number ]_vars

\* C13: a create_sale that fails while processing a line (the k-th line names a
\* product that does not exist in the tenant) leaves no Sale header, no SaleItem,
\* no StockMovement, no stock decrement and no customer balance change behind.
C13_FailedSaleLeavesNothing ==
    [][ (last'.op = "create_sale" /\ last'.result # "ok")
        => /\ sales' = sales
           /\ movements' = movements
           /\ products' = products
           /\ customers' = customers
           /\ accounts' = accounts ]_vars

\* a cart whose first line is a product in stock and whose second line names an
\* unknown product has been refused at the second line
C13_Witness ==
    /\ last.op = "create_sale"
    /\ last.result = "Product.DoesNotExist"
    /\ Len(last.items_data) = 2
    /\ ProductExists(products, "t1", last.items_data[1].product_id)
    /\ ~ProductExists(products, "t1", last.items_data[2].product_id)
    /\ products = last.pre_products
    /\ products[last.items_data[1].product_id].current_stock
          >= last.items_data[1].quantity

\* C14: every sale created with payment_method credit for a customer creates a
\* CustomerAccount entry of transaction_type sale, linked to that sale, whose
\* amount is the sale's outstanding balance (total_amount - paid_amount, at least
\* 0), and increases the customer's current_balance by the same amount.
C14_CreditSalePostsLedgerEntry ==
    [][ (/\ last'.op \in {"create_sale", "order_generate_sale"}
         /\ last'.result = "ok"
         /\ Len(sales') = Len(sales) + 1
         /\ sales'[Len(sales')].payment_method = "credit"
         /\ sales'[Len(sales')].customer # None)
        => LET sale == sales'[Len(sales')]
               owed == Max(0, sale.total_amount - sale.paid_amount)
           IN /\ Len(accounts') = Len(accounts) + 1
              /\ accounts'[Len(accounts')].transaction_type = "sale"
              /\ accounts'[Len(accounts')].customer = sale.customer
              /\ accounts'[Len(accounts')].sale = Len(sales')
              /\ accounts'[Len(accounts')].amount = owed
              /\ customers'[sale.customer].current_balance =
                    customers[sale.customer].current_balance + owed ]_vars

\* C15: for every sale created by create_sale, change_amount = paid_amount -
\* total_amount when paid_amount >= total_amount and the payment method is not
\* credit, and change_amount = 0 in every other case.
C15_ChangeOnlyWhenPaidNotCredit ==
    \A s \in 1..Len(sales) :
        sales[s].order = None =>
            sales[s].change_amount =
                IF /\ sales[s].paid_amount >= sales[s].total_amount
                   /\ sales[s].payment_method # "credit"
                THEN sales[s].paid_amount - sales[s].total_amount
                ELSE 0

\* C16: a sale paid by cash, card or transfer starts as completed and a sale on
\* credit starts as pending; no operation moves a sale from completed to pending
\* or out of cancelled.
C16_StatusStateMachine ==
    [][ /\ \A s \in (Len(sales) + 1)..Len(sales') :
              sales'[s].status = IF sales'[s].payment_method = "credit"
                                 THEN "pending" ELSE "completed"
        /\ \A s \in 1..Len(sales) :
              /\ s <= Len(sales')
              /\ sales[s].status = "completed" => sales'[s].status # "pending"
              /\ sales[s].status = "cancelled" => sales'[s].status = "cancelled" ]_vars

\* C17: starting from non-negative stock, no create_sale and no
\* order_generate_sale leaves a product's current_stock below zero, also when one
\* cart or order has the same product on two or more lines whose quantities
\* together exceed the stock.
C17_SalesKeepStockNonNegative ==
    [][ (/\ last'.op \in {"create_sale", "order_generate_sale"}
         /\ \A p \in AllProductIds : products[p].current_stock >= 0)
        => \A p \in AllProductIds : products'[p].current_stock >= 0 ]_vars

(***************************************************************************)
(* Two create_sale requests served at the same time                        *)
(*                                                                         *)
(* Each request runs create_sale in its own database transaction.  A       *)
(* transaction reads committed rows; its own writes become visible to the  *)
(* other at commit.  product.save() is an UPDATE of the row with the       *)
(* values held by the request, and takes the row's lock until commit: the  *)
(* other request's UPDATE of the same row waits for it, or, on a database  *)
(* that does not queue writers, is refused with an error.  Each request    *)
(* sells one line of product p1 for cash.                                  *)
(***************************************************************************)
ConcurrentProduct == "p1"
ConcurrentStocks == {1, 2, 3}
ConcurrentQuantities == {1, 2}

\* the stock came in by one purchase, recorded as its movement
InitConcurrentSales ==
    /\ requests = NoRequests
    /\ \E stock \in ConcurrentStocks :
          /\ products = [InitProducts EXCEPT ![ConcurrentProduct].current_stock = stock]
          /\ movements = <<[product        |-> ConcurrentProduct,
                            movement_type  |-> "purchase",
                            quantity       |-> stock,
                            previous_stock |-> 0,
                            new_stock      |-> stock,
                            reference      |-> ""]>>
    /\ sales = <<>>
    /\ customers = InitCustomers
    /\ accounts = <<>>
    /\ registers = <<>>
    /\ supplierAccounts = <<>>
    /\ clock = 1
    /\ last = NoCall
    /\ calc = NoCalc

\* another request has updated the product row and not yet committed
RowLockedByOther(r) ==
    \E o \in RequestIds \ {r} : requests[o].pc = "commit"

\* lines 39-69: the request enters create_sale, reads the tenant's newest sale for
\* the invoice number and inserts the header
StartSale(r, quantity) ==
    /\ requests[r].pc = "idle"
    /\ requests' = [requests EXCEPT ![r] =
                      [pc |-> "get_product", quantity |-> quantity,
                       invoice_number |-> NextInvoiceNumber("t1")]]
    /\ UNCHANGED <<stockVars, saleVars, customerVars, cashVars, supplierVars,
                   clock, last, calc>>

\* lines 76-79: Product.objects.get reads the committed row
GetProduct(r) ==
    /\ requests[r].pc = "get_product"
    /\ requests' = [requests EXCEPT ![r] =
                      [@ EXCEPT !.pc = "save_product"] @@
                      [previous_stock |-> products[ConcurrentProduct].current_stock]]
    /\ UNCHANGED <<stockVars, saleVars, customerVars, cashVars, supplierVars,
                   clock, last, calc>>

\* lines 103-105: product.current_stock -= quantity; product.save()
SaveProduct(r) ==
    /\ requests[r].pc = "save_product"
    /\ ~RowLockedByOther(r)
    /\ requests' = [requests EXCEPT ![r].pc = "commit"]
    /\ UNCHANGED <<stockVars, saleVars, customerVars, cashVars, supplierVars,
                   clock, last, calc>>

\* line 105 on a database that refuses the second writer: the error leaves
\* transaction.atomic and the request's writes are dropped
SaveProductRefused(r) ==
    /\ requests[r].pc = "save_product"
    /\ RowLockedByOther(r)
    /\ requests' = [requests EXCEPT ![r].pc = "failed"]
    /\ UNCHANGED <<stockVars, saleVars, customerVars, cashVars, supplierVars,
                   clock, last, calc>>

\* lines 107-138 and the commit: the request's rows and its value of
\* current_stock reach the store
CommitSale(r) ==
    /\ requests[r].pc = "commit"
    /\ LET req == requests[r]
           read == [products EXCEPT
                      ![ConcurrentProduct].current_stock = req.previous_stock]
           acc == SaleLine([ok |-> TRUE, error |-> "", products |-> read,
                            movements |-> movements, items |-> <<>>,
                            total_subtotal |-> 0, total_tax |-> 0,
                            total_discount |-> 0],
                           Line(ConcurrentProduct, req.quantity, NoPrice, 0),
                           "t1", req.invoice_number)
           total_amount == acc.total_subtotal
           paid_amount == 30
       IN /\ products' = [products EXCEPT ![ConcurrentProduct].current_stock =
                             acc.products[ConcurrentProduct].current_stock]
          /\ movements' = acc.movements
          /\ sales' = Append(sales,
                [tenant               |-> "t1",
                 invoice_number       |-> req.invoice_number,
                 customer             |-> None,
                 payment_method       |-> "cash",
                 paid_amount          |-> paid_amount,
                 currency_paid        |-> "PYG",
                 paid_amount_original |-> paid_amount,
                 status               |-> "completed",
                 subtotal             |-> HeaderSubtotal(acc.total_subtotal, acc.total_tax),
                 tax_amount           |-> acc.total_tax,
                 discount_amount      |-> acc.total_discount,
                 total_amount         |-> total_amount,
                 change_amount        |-> ChangeAmount(paid_amount, total_amount),
                 created_at           |-> clock,
                 order                |-> None,
                 items                |-> acc.items])
          /\ last' = [op |-> "create_sale", request |-> r, result |-> "ok"]
    /\ clock' = clock + 1
    /\ requests' = [requests EXCEPT ![r].pc = "done"]
    /\ UNCHANGED <<customerVars, cashVars, supplierVars, calc>>

DoStartSale == \E r \in RequestIds, quantity \in ConcurrentQuantities : StartSale(r, quantity)
DoGetProduct == \E r \in RequestIds : GetProduct(r)
DoSaveProduct == \E r \in RequestIds : SaveProduct(r)
DoSaveProductRefused == \E r \in RequestIds : SaveProductRefused(r)
DoCommitSale == \E r \in RequestIds : CommitSale(r)

NextConcurrentSales ==
    \/ DoStartSale
    \/ DoGetProduct
    \/ DoSaveProduct
    \/ DoSaveProductRefused
    \/ DoCommitSale

SpecConcurrentSales == InitConcurrentSales /\ [][NextConcurrentSales]_vars

\* C18: under every interleaving of two concurrent create_sale requests for the
\* same product, if both commit then the final current_stock is the initial stock
\* minus both quantities and is not negative (no update is lost, and the stock is
\* not sold twice when it covers only one of the requests).
C18_NoLostUpdateNoOversell ==
    (\A r \in RequestIds : requests[r].pc = "done")
    => /\ products[ConcurrentProduct].current_stock =
             movements[1].new_stock - requests["r1"].quantity - requests["r2"].quantity
       /\ products[ConcurrentProduct].current_stock >= 0

(***************************************************************************)
(* Open and close requests served at the same time                         *)
(*                                                                         *)
(* open_cash_register is a query followed by an insert, with nothing that  *)
(* holds other requests off in between.                                    *)
(***************************************************************************)
\* lines 67-75: the request looks for an open register of its tenant
CheckOpenRegister(r, tenant, initial) ==
    /\ requests[r].pc = "idle"
    /\ requests' = [requests EXCEPT ![r] =
                      IF HasOpenRegister(tenant)
                      THEN [pc |-> "refused", tenant |-> tenant]
                      ELSE [pc |-> "create", tenant |-> tenant, initial |-> initial]]
    /\ UNCHANGED <<stockVars, saleVars, customerVars, cashVars, supplierVars,
                   clock, last, calc>>

\* lines 77-91: the request that found none creates its row
CreateRegister(r) ==
    /\ requests[r].pc = "create"
    /\ registers' = Append(registers,
                           [tenant          |-> requests[r].tenant,
                            status          |-> "open",
                            opened_at       |-> clock,
                            closed_at       |-> None,
                            initial_amount  |-> requests[r].initial,
                            expected_amount |-> ZeroAmounts,
                            actual_amount   |-> ZeroAmounts,
                            difference      |-> ZeroAmounts])
    /\ clock' = clock + 1
    /\ last' = [op |-> "open_cash_register", tenant |-> requests[r].tenant,
                result |-> "ok"]
    /\ requests' = [requests EXCEPT ![r].pc = "done"]
    /\ UNCHANGED <<stockVars, saleVars, customerVars, supplierVars, calc>>

DoCheckOpenRegister ==
    \E r \in RequestIds, tenant \in Tenants, initial \in InitialAmounts :
        CheckOpenRegister(r, tenant, initial)

DoCreateRegister == \E r \in RequestIds : CreateRegister(r)

NextConcurrentOpen ==
    \/ DoCheckOpenRegister
    \/ DoCreateRegister
    \/ DoOpenCashRegister
    \/ DoCloseCashRegister

SpecConcurrentOpen == Init /\ [][NextConcurrentOpen]_vars

\* the registers of a tenant in status open
OpenRegistersOf(tenant) ==
    {r \in 1..Len(registers) :
        registers[r].tenant = tenant /\ registers[r].status = "open"}

\* C19: in every reachable state each tenant has at most one CashRegister in status
\* open, under any sequence and any interleaving of open and close requests.
C19_AtMostOneOpenRegister ==
    \A tenant \in Tenants : Cardinality(OpenRegistersOf(tenant)) <= 1

\* C20: a cash register moves from open to closed once and closed is terminal: a
\* close request on a register that is already closed is rejected and leaves its
\* closed_at, expected, actual and difference amounts unchanged, and no operation
\* sets a closed register back to open.
C20_ClosedIsTerminal ==
    [][ /\ \A r \in 1..Len(registers) :
              registers[r].status = "closed"
              => r <= Len(registers') /\ registers'[r] = registers[r]
        /\ (/\ last'.op = "close_cash_register"
            /\ last'.pk \in 1..Len(registers)
            /\ registers[last'.pk].status = "closed")
           => last'.result = "Http404" /\ registers' = registers ]_vars

\* the tenant's own closed register has been asked to close again and the
\* request was answered 404
C20_Witness ==
    /\ last.op = "close_cash_register"
    /\ last.result = "Http404"
    /\ last.pk \in 1..Len(registers)
    /\ registers[last.pk].tenant = last.tenant
    /\ registers[last.pk].status = "closed"

(***************************************************************************)
(* stock.views.product_edit, and the sales made before and after it        *)
(***************************************************************************)
MaxCatalogOps == 3   \* calls that write to the store, in the catalogue runs

\* the fields of the product form that sales read: a dearer, exempt product
\* with stock, and a product at the lower rate with none
ProductForms ==
    { [sale_price |-> 25, tax_type |-> "EXENTA", current_stock |-> 3],
      [sale_price |-> 21, tax_type |-> "10", current_stock |-> 0] }

\* a SaleItem priced again from the product form
RepricedItem(sale_item, form) ==
    LET t == CalculateTotals(sale_item.quantity, form.sale_price,
                             sale_item.discount_percent, form.tax_type)
    IN [sale_item EXCEPT !.unit_price = form.sale_price,
                         !.tax_type = form.tax_type,
                         !.discount_amount = t.discount_amount,
                         !.subtotal = t.subtotal,
                         !.tax_amount = t.tax_amount]

\* product_edit that also prices the product's sold lines again
ProductEditRepricing(tenant, pk, form) ==
    /\ products[pk].tenant = tenant
    /\ products' = [products EXCEPT ![pk].sale_price = form.sale_price,
                                    ![pk].tax_type = form.tax_type,
                                    ![pk].current_stock = form.current_stock]
    /\ sales' = [s \in 1..Len(sales) |->
                   [sales[s] EXCEPT !.items =
                      [i \in 1..Len(sales[s].items) |->
                         IF sales[s].items[i].product = pk
                         THEN RepricedItem(sales[s].items[i], form)
                         ELSE sales[s].items[i]]]]
    /\ clock' = clock + 1
    /\ last' = [op |-> "product_edit", product |-> pk, result |-> "ok"]
    /\ UNCHANGED <<movements, customerVars, cashVars, supplierVars, calc, requests>>

ProductEdit(tenant, pk, form) ==
    IF products[pk].tenant # tenant
    THEN \* line 82: get_object_or_404
         /\ last' = [op |-> "product_edit", product |-> pk, result |-> "404"]
         /\ UNCHANGED <<stockVars, saleVars, customerVars, cashVars, supplierVars,
                        clock, calc, requests>>
    ELSE \* lines 86-99: the form's values are assigned and the row saved
         /\ products' = [products EXCEPT ![pk].sale_price = form.sale_price,
                                         ![pk].tax_type = form.tax_type,
                                         ![pk].current_stock = form.current_stock]
         /\ clock' = clock + 1
         /\ last' = [op |-> "product_edit", product |-> pk, result |-> "ok"]
         /\ UNCHANGED <<movements, saleVars, customerVars, cashVars, supplierVars,
                        calc, requests>>

DoProductEdit ==
    /\ clock < MaxCatalogOps
    /\ \E pk \in AllProductIds, form \in ProductForms : ProductEdit("t1", pk, form)

NextCatalog ==
    \/ DoCreateSale
    \/ DoProductEdit

SpecCatalog == Init /\ [][NextCatalog]_vars

\* C22: once a sale exists, a later product_edit that changes a product's sale
\* price or tax type leaves unit_price, tax_type, discount_amount, subtotal and
\* tax_amount of every existing SaleItem, and subtotal, tax_amount and
\* total_amount of every existing Sale, as they were.
C22_ProductEditKeepsSales ==
    [][ last'.op = "product_edit"
        => /\ Len(sales') = Len(sales)
           /\ \A s \in 1..Len(sales) :
                 /\ sales'[s].subtotal = sales[s].subtotal
                 /\ sales'[s].tax_amount = sales[s].tax_amount
                 /\ sales'[s].total_amount = sales[s].total_amount
                 /\ Len(sales'[s].items) = Len(sales[s].items)
                 /\ \A i \in 1..Len(sales[s].items) :
                       LET before == sales[s].items[i]
                           after == sales'[s].items[i]
                       IN /\ after.unit_price = before.unit_price
                          /\ after.tax_type = before.tax_type
                          /\ after.discount_amount = before.discount_amount
                          /\ after.subtotal = before.subtotal
                          /\ after.tax_amount = before.tax_amount ]_vars

\* C22 witness: a product was edited after a line of it was sold, and the line
\* keeps a price and a tax type the product no longer has
C22_Witness ==
    /\ last.op = "product_edit"
    /\ last.result = "ok"
    /\ \E s \in 1..Len(sales) : \E i \in 1..Len(sales[s].items) :
          /\ sales[s].items[i].product = last.product
          /\ sales[s].items[i].unit_price # products[last.product].sale_price
          /\ sales[s].items[i].tax_type # products[last.product].tax_type

(***************************************************************************)
(* Further properties of the sales and ledger specifications               *)
(***************************************************************************)
\* C24: for every sale produced by create_sale the header total_amount is the
\* sum of its lines' tax-inclusive subtotals after discount, and the header
\* subtotal is the sum of its lines' tax-exclusive bases (line subtotal minus
\* line tax_amount).
C24_HeaderSumsOfLines ==
    \A s \in 1..Len(sales) :
        /\ sales[s].total_amount = SumField(sales[s].items, "subtotal")
        /\ sales[s].subtotal = SumField(sales[s].items, "subtotal")
                               - SumField(sales[s].items, "tax_amount")

(***************************************************************************)
(* Ledger specification: payments of customers, purchases from and         *)
(* payments to suppliers                                                   *)
(***************************************************************************)
MaxLedgerOps == 3   \* calls that write to the supplier ledger, in the ledger runs

\* a purchase of 100.00 with the due date left empty, whole or in the
\* largest number of installments
DoLedgerPurchase ==
    /\ clock < MaxLedgerOps
    /\ \E supplier \in Suppliers, installments \in {1, MaxInstallments} :
          CreatePurchase(supplier, 10000, NoDueDate, installments)

DoLedgerPayment ==
    /\ clock < MaxLedgerOps
    /\ \E supplier \in Suppliers, amount \in PaymentFormAmounts,
          related_purchase \in 0..Len(supplierAccounts) :
          /\ related_purchase # 0 =>
                supplierAccounts[related_purchase].tenant = SupplierTenant(supplier)
          /\ CreatePayment(supplier, amount, related_purchase)

NextLedgers ==
    \/ DoRegisterPayment
    \/ DoLedgerPurchase
    \/ DoLedgerPayment

SpecLedgers == Init /\ [][NextLedgers]_vars

MaxPromises == 2   \* promised dates entered, one a day

FirstDay == 3

\* due and promised dates before, within and after the days of the run
DatesOnForm == {1, 4, 9}

SaleEntry(due_date, promised_date) ==
    [tenant           |-> "t1",
     customer         |-> "c1",
     transaction_type |-> "sale",
     amount           |-> 50,
     sale             |-> None,
     due_date         |-> due_date,
     promised_date    |-> promised_date]

SaleEntries ==
    { SaleEntry(due_date, promised_date) :
         due_date \in DatesOnForm \cup {NoDate}, promised_date \in DatesOnForm \cup {NoDate} }

InitOverdue ==
    /\ requests = NoRequests
    /\ products = InitProducts
    /\ movements = <<>>
    /\ sales = <<>>
    /\ customers = InitCustomers
    /\ accounts \in { <<e>> : e \in SaleEntries }
    /\ registers = <<>>
    /\ supplierAccounts = <<>>
    /\ clock = FirstDay
    /\ last = NoCall
    /\ calc = NoCalc

\* customer_account_detail, POST update_promised_date (lines 69-85)
UpdatePromisedDate(tenant, customer, transaction_id, promised_date) ==
    IF /\ transaction_id \in 1..Len(accounts)
       /\ accounts[transaction_id].tenant = tenant
       /\ accounts[transaction_id].customer = customer
    THEN /\ accounts' = [accounts EXCEPT ![transaction_id].promised_date = promised_date]
         /\ clock' = clock + 1
         /\ last' = [op |-> "update_promised_date", result |-> "ok"]
         /\ UNCHANGED <<stockVars, saleVars, customers, cashVars, supplierVars, calc,
                        requests>>
    ELSE /\ last' = [op |-> "update_promised_date", result |-> "DoesNotExist"]
         /\ UNCHANGED <<stockVars, saleVars, customerVars, cashVars, supplierVars,
                        clock, calc, requests>>

\* CustomerAccount.effective_due_date: self.promised_date or self.due_date
EffectiveDueDate(entry) ==
    IF entry.promised_date # NoDate THEN entry.promised_date ELSE entry.due_date

\* CustomerAccount.is_overdue
IsOverdue(entry) ==
    /\ entry.transaction_type = "sale"
    /\ EffectiveDueDate(entry) # NoDate
    /\ EffectiveDueDate(entry) < Today

\* filter(transaction_type='sale', due_date__lt=today): a null due date matches
\* no comparison
DueDateLtToday(entry) ==
    /\ entry.transaction_type = "sale"
    /\ entry.due_date # NoDate
    /\ entry.due_date < Today

\* Customer.get_overdue_balance
GetOverdueBalance(customer) ==
    SumAmount(SelectSeq(accounts, LAMBDA e : e.customer = customer /\ DueDateLtToday(e)))

\* get_overdue_customers: total_sales - total_payments > 0 and a sale entry
\* past its due date
GetOverdueCustomers(tenant) ==
    { c \in CustomerIds :
        LET own == SelectSeq(accounts, LAMBDA e : e.tenant = tenant /\ e.customer = c)
            total_sales == SumAmount(SelectSeq(own, LAMBDA e : e.transaction_type = "sale"))
            total_payments ==
                SumAmount(SelectSeq(own, LAMBDA e : e.transaction_type = "payment"))
        IN /\ own # <<>>
           /\ total_sales - total_payments > 0
           /\ \E i \in 1..Len(own) : DueDateLtToday(own[i]) }

\* overdue_alerts, lines 162-189: the customers listed as overdue, with the
\* balance shown for each
OverdueAlerts(tenant) ==
    LET customers_with_debt ==
            { c \in CustomerIds :
                /\ customers[c].tenant = tenant
                /\ \E i \in 1..Len(accounts) :
                      accounts[i].customer = c /\ accounts[i].transaction_type = "sale" }
    IN { [customer |-> c, overdue_balance |-> GetOverdueBalance(c)] :
            c \in { d \in customers_with_debt : GetOverdueBalance(d) > 0 } }

DoUpdatePromisedDate ==
    /\ clock < FirstDay + MaxPromises
    /\ \E transaction_id \in 1..(Len(accounts) + 1), promised_date \in DatesOnForm :
          UpdatePromisedDate("t1", "c1", transaction_id, promised_date)

\* the reads keep their answer in the call record and leave the store as it was
DoIsOverdue ==
    /\ \E i \in 1..Len(accounts) :
          last' = [op |-> "is_overdue", entry |-> i, result |-> IsOverdue(accounts[i])]
    /\ UNCHANGED <<stockVars, saleVars, customerVars, cashVars, supplierVars, clock,
                   calc, requests>>

DoGetOverdueBalance ==
    /\ \E c \in CustomerIds :
          last' = [op |-> "get_overdue_balance", customer |-> c,
                   result |-> GetOverdueBalance(c)]
    /\ UNCHANGED <<stockVars, saleVars, customerVars, cashVars, supplierVars, clock,
                   calc, requests>>

DoGetOverdueCustomers ==
    /\ last' = [op |-> "get_overdue_customers", result |-> GetOverdueCustomers("t1")]
    /\ UNCHANGED <<stockVars, saleVars, customerVars, cashVars, supplierVars, clock,
                   calc, requests>>

DoOverdueAlerts ==
    /\ last' = [op |-> "overdue_alerts", result |-> OverdueAlerts("t1")]
    /\ UNCHANGED <<stockVars, saleVars, customerVars, cashVars, supplierVars, clock,
                   calc, requests>>

NextOverdue ==
    \/ DoUpdatePromisedDate
    \/ DoIsOverdue
    \/ DoGetOverdueBalance
    \/ DoGetOverdueCustomers
    \/ DoOverdueAlerts

SpecOverdue == InitOverdue /\ [][NextOverdue]_vars

\* the entry is a sale whose promised date if set, else due date, is before today
PastEffectiveDueDate(entry) ==
    /\ entry.transaction_type = "sale"
    /\ LET effective == IF entry.promised_date # NoDate THEN entry.promised_date
                        ELSE entry.due_date
       IN effective # NoDate /\ effective < Today

\* C27: every overdue computation for a customer (is_overdue,
\* get_overdue_balance, get_overdue_customers, overdue_alerts) counts a sale
\* entry as overdue exactly when its effective due date, the promised date if
\* set and the due date otherwise, is before the as-of date; an entry past its due
\* date whose promised date is still to come is not overdue.
C27_OverdueByEffectiveDate ==
    LET overdue_balance(c) ==
            SumAmount(SelectSeq(accounts,
                                LAMBDA e : e.customer = c /\ PastEffectiveDueDate(e)))
    IN /\ last.op = "is_overdue"
          => last.result = PastEffectiveDueDate(accounts[last.entry])
       /\ last.op = "get_overdue_balance"
          => last.result = overdue_balance(last.customer)
       /\ last.op = "get_overdue_customers"
          => last.result = { c \in CustomerIds : overdue_balance(c) > 0 }
       /\ last.op = "overdue_alerts"
          => last.result = { [customer |-> c, overdue_balance |-> overdue_balance(c)] :
                                c \in { d \in CustomerIds : overdue_balance(d) > 0 } }

(***************************************************************************)
(* Orders and the sales generated from them                                *)
(***************************************************************************)
\* stock is bought, sales are generated from orders, sales are cancelled
NextOrderDesk ==
    \/ DoRegisterPurchase
    \/ DoOrderGenerateSale
    \/ DoCancelSale

SpecOrderDesk == Init /\ [][NextOrderDesk]_vars

====
